---- MODULE Spec2Model ----
(***************************************************************************)
(* Working-days API (brreinac/capta_test): the calendar engine of          *)
(* src/utils/calendar.ts and the GET /working-date handler of              *)
(* src/server.ts.                                                          *)
(*                                                                         *)
(* An instant is a record [day, min]: day is a civil-date index (day 0 is  *)
(* a Monday) and min the minute of that day (0..1439).  The handler zeroes *)
(* seconds and milliseconds before any comparison, so a minute is the      *)
(* finest grain the engine sees.  A holiday set is a set of day indices,   *)
(* the counterpart of the Set of 'YYYY-MM-DD' strings of the code.         *)
(*                                                                         *)
(* The engine is modelled from the calendar module that server.ts imports  *)
(* (the one exporting TIMEZONE); the older copy of the module has the same *)
(* branches in adjustBackwardToWorking and addWorkingHours.                *)
(***************************************************************************)
EXTENDS Integers, FiniteSets, Sequences, TLC

VARIABLES pc, holidaySet, startUtc, days, hours, startLocal, resultLocal, resultUtc,
          remote, holidaysList, exception, response, loop

vars == <<pc, holidaySet, startUtc, days, hours, startLocal, resultLocal, resultUtc,
          remote, holidaysList, exception, response, loop>>

(***************************************************************************)
(* Bounds of the model.                                                    *)
(***************************************************************************)
MaxDays == 2
MaxHours == 9
MaxHolidays == 2

\* civil dates a request may start on (Thursday .. Monday), and the dates
\* that may be holidays (the weekdays from Wednesday to the Wednesday after)
StartDays == 10..14
HolidayDays == {d \in 9..16 : d % 7 < 5}

\* times of day on the half-hour grid
TimesOfDay == {30 * k : k \in 0..47}

Instants == [day : StartDays, min : TimesOfDay]
HolidaySets == {H \in SUBSET HolidayDays : Cardinality(H) <= MaxHolidays}

\* value of a handler variable that has not been assigned yet
Unset == [day |-> -1, min |-> -1]

\* no HTTP request to the holiday source, no exception, no response yet
NotRequested == [kind |-> "none", data |-> <<>>]
NoException == [thrown |-> FALSE, message |-> ""]
NoResponse == [status |-> 0, error |-> "", message |-> ""]

\* the loop variables of the engine when no loop is running: the function
\* called, the counter i of addBusinessDays, hoursLeft of addWorkingHours,
\* and the loop a next-working-day scan returns to
NoLoop == [fn |-> "none", i |-> 0, hoursLeft |-> 0, ret |-> "none"]

(***************************************************************************)
(* luxon DateTime arithmetic on [day, min] records.                        *)
(***************************************************************************)
LUNCH_START == 12
LUNCH_END == 13

At(d, m) == [day |-> d, min |-> m]

\* absolute minute count of an instant, for ordering and differences
Abs(dt) == dt.day * 1440 + dt.min

FromAbs(a) == [day |-> a \div 1440, min |-> a % 1440]

\* dt.hour
HourOf(dt) == dt.min \div 60

\* dt.set({ hour, minute: 0, second: 0, millisecond: 0 })
SetHour(dt, h) == At(dt.day, h * 60)

\* dt.plus({ days: n }) and dt.minus({ days: n })
PlusDays(dt, n) == At(dt.day + n, dt.min)

\* dt.plus({ hours: n })
PlusHours(dt, n) == FromAbs(Abs(dt) + 60 * n)

\* startUtc.setZone("America/Bogota"): Bogota is UTC-5 all year
toLocal(dt) == FromAbs(Abs(dt) - 300)

\* resultLocal.setZone("utc", { keepLocalTime: false })
toUtc(dt) == FromAbs(Abs(dt) + 300)

\* dt.weekday: 1 = Monday .. 7 = Sunday
Weekday(dt) == (dt.day % 7) + 1

isWeekend(dt) == Weekday(dt) = 6 \/ Weekday(dt) = 7

\* a bug that never finds a date in the holiday set
isHolidayMut(dt, H) == FALSE

isHoliday(dt, H) == dt.day \in H

(***************************************************************************)
(* adjustBackwardToWorking                                                 *)
(***************************************************************************)
\* a bug that clamps a lunch-time start forward, to the end of lunch
clampToLunchStartMut(dt) == SetHour(dt, LUNCH_END)

\* dt.set({ hour: LUNCH_START, minute: 0, ... }): back to the end of the morning
clampToLunchStart(dt) == SetHour(dt, LUNCH_START)

RECURSIVE adjustBackwardToWorking(_, _)
adjustBackwardToWorking(dt, H) ==
    IF isWeekend(dt) \/ isHoliday(dt, H)
    THEN adjustBackwardToWorking(SetHour(PlusDays(dt, -1), 17), H)
    ELSE IF dt.min < 8 * 60
    THEN adjustBackwardToWorking(SetHour(PlusDays(dt, -1), 17), H)
    ELSE IF dt.min >= 17 * 60
    THEN SetHour(dt, 17)
    ELSE IF dt.min >= LUNCH_START * 60 /\ dt.min < LUNCH_END * 60
    THEN clampToLunchStart(dt)
    ELSE dt

(***************************************************************************)
(* nextWorkingDay and addBusinessDays                                      *)
(***************************************************************************)
RECURSIVE skipNonWorking(_, _)
skipNonWorking(candidate, H) ==
    IF isWeekend(candidate) \/ isHoliday(candidate, H)
    THEN skipNonWorking(PlusDays(candidate, 1), H)
    ELSE candidate

\* a bug that takes the next calendar day without the weekend / holiday scan
nextWorkingDayMut(dt, H) == PlusDays(dt, 1)

nextWorkingDay(dt, H) == skipNonWorking(PlusDays(dt, 1), H)

RECURSIVE addDaysLoop(_, _, _)
addDaysLoop(dt, n, H) ==
    IF n <= 0 THEN dt ELSE addDaysLoop(nextWorkingDay(dt, H), n - 1, H)

RECURSIVE ensureLanding(_, _)
ensureLanding(dt, H) ==
    IF isWeekend(dt) \/ isHoliday(dt, H)
    THEN ensureLanding(nextWorkingDay(dt, H), H)
    ELSE dt

addBusinessDays(dt, n, H) ==
    IF n <= 0 THEN dt ELSE ensureLanding(addDaysLoop(dt, n, H), H)

\* addBusinessDays of the other copy of the module (src/utils/calendar.ts
\* without the days <= 0 guard): the for loop, then the landing-day loop
addBusinessDaysUnguarded(dt, n, H) == ensureLanding(addDaysLoop(dt, n, H), H)

(***************************************************************************)
(* addWorkingHours                                                         *)
(***************************************************************************)
\* next = dt.plus({days: 1}).set({hour: 8, ...}); while non-working: next + 1 day
nextDayStart(dt, H) == skipNonWorking(SetHour(PlusDays(dt, 1), 8), H)

moveToNextWorkStart(dt, H) ==
    IF dt.min < 8 * 60 THEN SetHour(dt, 8)
    ELSE IF dt.min >= 8 * 60 /\ dt.min < 12 * 60 THEN dt
    ELSE IF dt.min >= 12 * 60 /\ dt.min < 13 * 60 THEN SetHour(dt, 13)
    ELSE IF dt.min >= 13 * 60 /\ dt.min < 17 * 60 THEN dt
    ELSE nextDayStart(dt, H)

\* end of the segment dt lies in (dt.min < 17:00 where this is used)
segmentEnd(dt) ==
    IF dt.min >= 8 * 60 /\ dt.min < 12 * 60 THEN SetHour(dt, 12)
    ELSE IF dt.min >= 13 * 60 /\ dt.min < 17 * 60 THEN SetHour(dt, 17)
    ELSE SetHour(dt, 8)

\* Math.max(0, Math.floor(segmentEnd.diff(dt, "minutes").minutes))
availableMinutes(dt) ==
    LET diff == Abs(segmentEnd(dt)) - Abs(dt)
    IN  IF diff > 0 THEN diff ELSE 0

\* a bug that counts a started hour of the segment as a whole one
coversHoursLeftCeilMut(avail, hoursLeft) == avail + 60 > hoursLeft * 60

\* a bug that hands over to the next segment when the hours end exactly at
\* the segment end
coversHoursLeftStrictMut(avail, hoursLeft) == avail > hoursLeft * 60

\* the terminal test: the segment covers all the hours that are left
coversHoursLeft(avail, hoursLeft) == avail >= hoursLeft * 60

\* a bug that forgets the end-of-day case and always resumes at 13:00
nextSegmentStartMut(dt, segEnd, H) == SetHour(dt, 13)

\* leaving a segment: 13:00 the same day after the morning, else the
\* next working day at 08:00
nextSegmentStart(dt, segEnd, H) ==
    IF HourOf(segEnd) = 12 THEN SetHour(dt, 13) ELSE nextDayStart(dt, H)

RECURSIVE hoursLoop(_, _, _)
hoursLoop(dt, hoursLeft, H) ==
    IF hoursLeft <= 0 THEN dt
    ELSE IF isWeekend(dt) \/ isHoliday(dt, H)
    THEN hoursLoop(SetHour(nextWorkingDay(dt, H), 8), hoursLeft, H)
    ELSE IF HourOf(dt) >= 12 /\ HourOf(dt) < 13
    THEN hoursLoop(SetHour(dt, 13), hoursLeft, H)
    ELSE IF dt.min >= 17 * 60
    THEN hoursLoop(nextDayStart(dt, H), hoursLeft, H)
    ELSE LET segEnd == segmentEnd(dt)
             avail == availableMinutes(dt)
             consumeHours == avail \div 60
         IN  IF avail <= 0
             THEN hoursLoop(nextSegmentStart(dt, segEnd, H), hoursLeft, H)
             ELSE IF coversHoursLeft(avail, hoursLeft)
             THEN PlusHours(dt, hoursLeft)
             ELSE hoursLoop(nextSegmentStart(segEnd, segEnd, H),
                            hoursLeft - consumeHours, H)

addWorkingHours(dt, n, H) == hoursLoop(moveToNextWorkStart(dt, H), n, H)

(***************************************************************************)
(* GET /working-date: the value the handler computes for a request.        *)
(***************************************************************************)
compute(utc, d, h, H) ==
    LET normalized == adjustBackwardToWorking(toLocal(utc), H)
        afterDays == IF d > 0 THEN addBusinessDays(normalized, d, H) ELSE normalized
        afterHours == IF h > 0 THEN addWorkingHours(afterDays, h, H) ELSE afterDays
    IN  toUtc(afterHours)

(***************************************************************************)
(* GET /working-date: the handler, one action per stage of the pipeline.   *)
(***************************************************************************)
Init ==
    /\ pc = "normalize"
    /\ holidaySet \in HolidaySets
    /\ startUtc \in Instants
    /\ days \in 0..MaxDays
    /\ hours \in 0..MaxHours
    /\ startLocal = Unset
    /\ resultLocal = Unset
    /\ resultUtc = Unset
    /\ remote = NotRequested
    /\ holidaysList = <<>>
    /\ exception = NoException
    /\ response = NoResponse
    /\ loop = NoLoop

\* startLocal = startUtc.setZone(TIMEZONE); adjustBackwardToWorking(startLocal)
Normalize ==
    /\ pc = "normalize"
    /\ startLocal' = toLocal(startUtc)
    /\ resultLocal' = adjustBackwardToWorking(toLocal(startUtc), holidaySet)
    /\ pc' = "addDays"
    /\ UNCHANGED <<holidaySet, startUtc, days, hours, resultUtc,
                   remote, holidaysList, exception, response>>
    /\ UNCHANGED loop

\* if (days !== undefined && days > 0) resultLocal = addBusinessDays(...)
AddDays ==
    /\ pc = "addDays"
    /\ resultLocal' = IF days > 0
                      THEN addBusinessDays(resultLocal, days, holidaySet)
                      ELSE resultLocal
    /\ pc' = "addHours"
    /\ UNCHANGED <<holidaySet, startUtc, days, hours, startLocal, resultUtc,
                   remote, holidaysList, exception, response>>
    /\ UNCHANGED loop

\* if (hours !== undefined && hours > 0) resultLocal = addWorkingHours(...)
AddHours ==
    /\ pc = "addHours"
    /\ resultLocal' = IF hours > 0
                      THEN addWorkingHours(resultLocal, hours, holidaySet)
                      ELSE resultLocal
    /\ pc' = "respond"
    /\ UNCHANGED <<holidaySet, startUtc, days, hours, startLocal, resultUtc,
                   remote, holidaysList, exception, response>>
    /\ UNCHANGED loop

\* resultUtc = resultLocal.setZone("utc"); res.status(200).json({date})
Respond ==
    /\ pc = "respond"
    /\ resultUtc' = toUtc(resultLocal)
    /\ response' = [status |-> 200, error |-> "", message |-> ""]
    /\ pc' = "done"
    /\ UNCHANGED <<holidaySet, startUtc, days, hours, startLocal, resultLocal,
                   remote, holidaysList, exception>>
    /\ UNCHANGED loop

Next == Normalize \/ AddDays \/ AddHours \/ Respond

Spec == Init /\ [][Next]_vars

(***************************************************************************)
(* The engine's functions called directly, on any instant of the grid.     *)
(* startLocal holds the argument, days / hours the count, resultLocal the  *)
(* returned instant.                                                       *)
(***************************************************************************)
InitCalls ==
    /\ holidaySet \in HolidaySets
    /\ startLocal \in Instants
    /\ startUtc = toUtc(startLocal)
    /\ resultLocal = Unset
    /\ resultUtc = Unset
    /\ remote = NotRequested
    /\ holidaysList = <<>>
    /\ exception = NoException
    /\ response = NoResponse
    /\ loop = NoLoop
    /\ \/ pc = "callAdjust" /\ days = 0 /\ hours = 0
       \/ pc = "callDays" /\ days \in 0..MaxDays /\ hours = 0
       \/ pc = "callDaysUnguarded" /\ days \in 0..MaxDays /\ hours = 0
       \/ pc = "callHours" /\ days = 0 /\ hours \in 0..MaxHours

CallAdjust ==
    /\ pc = "callAdjust"
    /\ resultLocal' = adjustBackwardToWorking(startLocal, holidaySet)
    /\ pc' = "retAdjust"
    /\ UNCHANGED <<holidaySet, startUtc, days, hours, startLocal, resultUtc,
                   remote, holidaysList, exception, response>>
    /\ UNCHANGED loop

CallDays ==
    /\ pc = "callDays"
    /\ resultLocal' = addBusinessDays(startLocal, days, holidaySet)
    /\ pc' = "retDays"
    /\ UNCHANGED <<holidaySet, startUtc, days, hours, startLocal, resultUtc,
                   remote, holidaysList, exception, response>>
    /\ UNCHANGED loop

CallDaysUnguarded ==
    /\ pc = "callDaysUnguarded"
    /\ resultLocal' = addBusinessDaysUnguarded(startLocal, days, holidaySet)
    /\ pc' = "retDaysUnguarded"
    /\ UNCHANGED <<holidaySet, startUtc, days, hours, startLocal, resultUtc,
                   remote, holidaysList, exception, response>>
    /\ UNCHANGED loop

CallHours ==
    /\ pc = "callHours"
    /\ resultLocal' = addWorkingHours(startLocal, hours, holidaySet)
    /\ pc' = "retHours"
    /\ UNCHANGED <<holidaySet, startUtc, days, hours, startLocal, resultUtc,
                   remote, holidaysList, exception, response>>
    /\ UNCHANGED loop

NextCalls == CallAdjust \/ CallDays \/ CallDaysUnguarded \/ CallHours

SpecCalls == InitCalls /\ [][NextCalls]_vars

(***************************************************************************)
(* Holiday retrieval and the handler's error path.                         *)
(*                                                                         *)
(* remote is the outcome of axios.get(HOLIDAYS_URL): a body of one of      *)
(* three shapes, or a rejected promise.  An element of a body is a plain   *)
(* 'YYYY-MM-DD' string, a full ISO instant in UTC, the empty string, or a  *)
(* value that is no string.                                                *)
(***************************************************************************)
MaxListLen == 2

DateItem(d) == [kind |-> "date", day |-> d]
IsoItem(d) == [kind |-> "iso", day |-> d]
EmptyString == [kind |-> "empty", day |-> 0]
NonString == [kind |-> "nonString", day |-> 0]

Items == {DateItem(d) : d \in HolidayDays} \cup {IsoItem(d) : d \in HolidayDays}
             \cup {EmptyString, NonString}

Lists == UNION {[1..n -> Items] : n \in 0..MaxListLen}

Rejections == {"networkError", "timeout", "httpError"}

Remotes ==
    [kind : {"array", "holidaysObject"}, data : Lists]
        \cup [kind : {"otherShape"} \cup Rejections, data : {<<>>}]

\* the embedded list: 2025-01-01, 01-06, 04-17, 04-18, 05-01, 07-20, 08-07,
\* 12-08, 12-25 as day indices counted from Monday 2024-12-30
FallbackHolidays ==
    <<DateItem(2), DateItem(7), DateItem(108), DateItem(109), DateItem(122),
      DateItem(202), DateItem(220), DateItem(343), DateItem(360)>>

fetchHolidaysRemote(r) ==
    IF r.kind \in Rejections THEN FallbackHolidays
    ELSE IF r.kind = "array" THEN r.data
    ELSE IF r.kind = "holidaysObject" THEN r.data
    ELSE <<>>

\* h.split("T") on a value that is no string (DateTime.fromISO calls it
\* invalid first) raises a TypeError
makeHolidaySetThrows(list) == \E i \in DOMAIN list : list[i].kind = "nonString"

SplitMessage == "h.split is not a function"

\* valid ISO strings give their date; the empty string is dropped
makeHolidaySet(list) ==
    {list[i].day : i \in {j \in DOMAIN list : list[j].kind \in {"date", "iso"}}}

InitFetch ==
    /\ pc = "fetch"
    /\ remote \in Remotes
    /\ startUtc \in {i \in Instants : i.min = 780}
    /\ days = 1
    /\ hours = 1
    /\ holidaySet = {}
    /\ holidaysList = <<>>
    /\ startLocal = Unset
    /\ resultLocal = Unset
    /\ resultUtc = Unset
    /\ exception = NoException
    /\ response = NoResponse
    /\ loop = NoLoop

\* const holidaysList = await fetchHolidaysRemote()
FetchHolidays ==
    /\ pc = "fetch"
    /\ holidaysList' = fetchHolidaysRemote(remote)
    /\ pc' = "makeSet"
    /\ UNCHANGED <<holidaySet, startUtc, days, hours, startLocal, resultLocal,
                   resultUtc, remote, exception, response>>
    /\ UNCHANGED loop

\* const holidaySet = makeHolidaySet(holidaysList || [])
MakeHolidaySet ==
    /\ pc = "makeSet"
    /\ IF makeHolidaySetThrows(holidaysList)
       THEN /\ exception' = [thrown |-> TRUE, message |-> SplitMessage]
            /\ pc' = "catch"
            /\ UNCHANGED holidaySet
       ELSE /\ holidaySet' = makeHolidaySet(holidaysList)
            /\ pc' = "normalize"
            /\ UNCHANGED exception
    /\ UNCHANGED <<startUtc, days, hours, startLocal, resultLocal, resultUtc,
                   remote, holidaysList, response>>
    /\ UNCHANGED loop

\* catch (err): res.status(500).json({ error: "InvalidParameters", message })
CatchError ==
    /\ pc = "catch"
    /\ response' = [status |-> 500, error |-> "InvalidParameters",
                    message |-> exception.message]
    /\ pc' = "done"
    /\ UNCHANGED <<holidaySet, startUtc, days, hours, startLocal, resultLocal,
                   resultUtc, remote, holidaysList, exception>>
    /\ UNCHANGED loop

NextFetch == FetchHolidays \/ MakeHolidaySet \/ CatchError \/ Next

SpecFetch == InitFetch /\ [][NextFetch]_vars

(***************************************************************************)
(* The engine's functions with every loop taken one iteration at a time.   *)
(* startLocal is the argument dtIn, resultLocal the loop variable dt       *)
(* (candidate / next inside a scan); loop holds the function called, the   *)
(* counter i, hoursLeft and the loop a scan returns to.  The scan of       *)
(* nextWorkingDay inside addWorkingHours is entered with the hour already  *)
(* set to 08:00, which the code sets on the scan's result.                 *)
(***************************************************************************)
nonWorkingDate(dt, H) == isWeekend(dt) \/ isHoliday(dt, H)

\* a bug that sets 17:00 without going back a day
previousDayEndMut(dt) == SetHour(dt, 17)

\* dt.minus({ days: 1 }).set({ hour: 17, ... })
previousDayEnd(dt) == SetHour(PlusDays(dt, -1), 17)

\* dt.plus({ days: 1 }).set({ hour: 8, ... }), the start of a scan
nextDayEight(dt) == SetHour(PlusDays(dt, 1), 8)

InitLoops ==
    /\ holidaySet \in HolidaySets
    /\ startLocal \in Instants
    /\ startUtc = toUtc(startLocal)
    /\ resultLocal = startLocal
    /\ resultUtc = Unset
    /\ remote = NotRequested
    /\ holidaysList = <<>>
    /\ exception = NoException
    /\ response = NoResponse
    /\ \/ /\ pc = "adjust" /\ days = 0 /\ hours = 0
          /\ loop = [NoLoop EXCEPT !.fn = "adjustBackwardToWorking"]
       \/ /\ pc = "daysEntry" /\ days \in 0..MaxDays /\ hours = 0
          /\ loop = [NoLoop EXCEPT !.fn = "addBusinessDays"]
       \/ /\ pc = "hoursEntry" /\ days = 0 /\ hours \in 0..MaxHours
          /\ loop = [NoLoop EXCEPT !.fn = "addWorkingHours"]

\* one iteration of while (true) in adjustBackwardToWorking
AdjustIter ==
    /\ pc = "adjust"
    /\ IF nonWorkingDate(resultLocal, holidaySet) \/ resultLocal.min < 8 * 60
       THEN /\ resultLocal' = previousDayEnd(resultLocal)
            /\ pc' = "adjust"
       ELSE /\ resultLocal' = adjustBackwardToWorking(resultLocal, holidaySet)
            /\ pc' = "returned"
    /\ UNCHANGED <<holidaySet, startUtc, days, hours, startLocal, resultUtc,
                   remote, holidaysList, exception, response, loop>>

\* addBusinessDays is entered: if (days <= 0) return dtIn
DaysEntry ==
    /\ pc = "daysEntry"
    /\ pc' = IF days <= 0 THEN "returned" ELSE "daysFor"
    /\ UNCHANGED <<holidaySet, startUtc, days, hours, startLocal, resultLocal,
                   resultUtc, remote, holidaysList, exception, response, loop>>

\* one iteration of for (i < days) in addBusinessDays: nextWorkingDay starts
DaysIter ==
    /\ pc = "daysFor"
    /\ IF loop.i < days
       THEN /\ resultLocal' = PlusDays(resultLocal, 1)
            /\ loop' = [loop EXCEPT !.i = loop.i + 1, !.ret = "daysFor"]
            /\ pc' = "scan"
       ELSE /\ pc' = "landing"
            /\ UNCHANGED <<resultLocal, loop>>
    /\ UNCHANGED <<holidaySet, startUtc, days, hours, startLocal, resultUtc,
                   remote, holidaysList, exception, response>>

\* one iteration of the landing-day while loop of addBusinessDays
LandingIter ==
    /\ pc = "landing"
    /\ IF nonWorkingDate(resultLocal, holidaySet)
       THEN /\ resultLocal' = PlusDays(resultLocal, 1)
            /\ loop' = [loop EXCEPT !.ret = "landing"]
            /\ pc' = "scan"
       ELSE /\ pc' = "returned"
            /\ UNCHANGED <<resultLocal, loop>>
    /\ UNCHANGED <<holidaySet, startUtc, days, hours, startLocal, resultUtc,
                   remote, holidaysList, exception, response>>

\* one iteration of while (isWeekend(c) || isHoliday(c)) c = c.plus({days: 1})
ScanIter ==
    /\ pc = "scan"
    /\ IF nonWorkingDate(resultLocal, holidaySet)
       THEN /\ resultLocal' = PlusDays(resultLocal, 1)
            /\ pc' = "scan"
       ELSE /\ pc' = loop.ret
            /\ UNCHANGED resultLocal
    /\ UNCHANGED <<holidaySet, startUtc, days, hours, startLocal, resultUtc,
                   remote, holidaysList, exception, response, loop>>

\* addWorkingHours is entered: hoursLeft = hoursToAdd; moveToNextWorkStart()
HoursEntry ==
    /\ pc = "hoursEntry"
    /\ IF resultLocal.min >= 17 * 60
       THEN /\ resultLocal' = nextDayEight(resultLocal)
            /\ pc' = "scan"
       ELSE /\ resultLocal' = moveToNextWorkStart(resultLocal, holidaySet)
            /\ pc' = "hours"
    /\ loop' = [loop EXCEPT !.hoursLeft = hours, !.ret = "hours"]
    /\ UNCHANGED <<holidaySet, startUtc, days, hours, startLocal, resultUtc,
                   remote, holidaysList, exception, response>>

\* one iteration of while (hoursLeft > 0) in addWorkingHours
HoursIter ==
    /\ pc = "hours"
    /\ LET dt == resultLocal
           segEnd == segmentEnd(dt)
           avail == availableMinutes(dt)
           consumeHours == avail \div 60
       IN  IF loop.hoursLeft <= 0
           THEN pc' = "returned" /\ UNCHANGED <<resultLocal, loop>>
           ELSE IF nonWorkingDate(dt, holidaySet) \/ dt.min >= 17 * 60
           THEN resultLocal' = nextDayEight(dt) /\ pc' = "scan" /\ UNCHANGED loop
           ELSE IF HourOf(dt) >= 12 /\ HourOf(dt) < 13
           THEN resultLocal' = SetHour(dt, 13) /\ pc' = "hours" /\ UNCHANGED loop
           ELSE IF avail <= 0
           THEN /\ UNCHANGED loop
                /\ IF HourOf(segEnd) = 12
                   THEN resultLocal' = SetHour(dt, 13) /\ pc' = "hours"
                   ELSE resultLocal' = nextDayEight(dt) /\ pc' = "scan"
           ELSE IF coversHoursLeft(avail, loop.hoursLeft)
           THEN /\ resultLocal' = PlusHours(dt, loop.hoursLeft)
                /\ loop' = [loop EXCEPT !.hoursLeft = 0]
                /\ pc' = "returned"
           ELSE /\ loop' = [loop EXCEPT !.hoursLeft = loop.hoursLeft - consumeHours]
                /\ IF HourOf(segEnd) = 12
                   THEN resultLocal' = SetHour(segEnd, 13) /\ pc' = "hours"
                   ELSE resultLocal' = nextDayEight(segEnd) /\ pc' = "scan"
    /\ UNCHANGED <<holidaySet, startUtc, days, hours, startLocal, resultUtc,
                   remote, holidaysList, exception, response>>

NextLoops ==
    AdjustIter \/ DaysEntry \/ DaysIter \/ LandingIter \/ ScanIter
        \/ HoursEntry \/ HoursIter

\* the engine is synchronous code: a step that can be taken is taken
SpecLoops == InitLoops /\ [][NextLoops]_vars /\ WF_vars(NextLoops)

(***************************************************************************)
(* Vocabulary of the properties.                                           *)
(***************************************************************************)
\* a civil date that is neither a Saturday / Sunday nor a holiday
IsWorkingDate(d, H) == (d % 7) < 5 /\ d \notin H

\* a working instant: a working date, time of day in [08:00,12:00] or
\* [13:00,17:00]
IsWorkingInstant(dt, H) ==
    /\ IsWorkingDate(dt.day, H)
    /\ \/ dt.min >= 480 /\ dt.min <= 720
       \/ dt.min >= 780 /\ dt.min <= 1020

\* the first working date strictly after d
NextWorkingDate(d, H) ==
    CHOOSE n \in (d + 1)..(d + 1 + Cardinality(H) + 2) :
        /\ IsWorkingDate(n, H)
        /\ \A k \in (d + 1)..(n - 1) : ~IsWorkingDate(k, H)

IsFriday(d) == d % 7 = 4

\* dt lies on a whole hour inside a work segment
InsideSegmentOnHour(dt) ==
    /\ dt.min % 60 = 0
    /\ \/ dt.min >= 480 /\ dt.min < 720
       \/ dt.min >= 780 /\ dt.min < 1020

\* whole hours from dt to the end of its segment
HoursToSegmentEnd(dt) == IF dt.min < 720 THEN (720 - dt.min) \div 60
                         ELSE (1020 - dt.min) \div 60

(***************************************************************************)
(* C1 as stated: for n >= 1 the instant returned by addWorkingHours never  *)
(* has a time of day in the lunch window [12:00, 13:00).                   *)
(***************************************************************************)
C1_NoLunchResultHalfOpen ==
    (pc = "retHours" /\ hours >= 1)
        => ~(resultLocal.min >= 720 /\ resultLocal.min < 780)

(***************************************************************************)
(* C1 amended: for n >= 1 the instant returned by addWorkingHours never    *)
(* has a time of day strictly inside lunch, 12:00 < t < 13:00 (exactly     *)
(* 12:00, the end of the morning segment, is a possible result).           *)
(***************************************************************************)
C1_NoLunchResultOpen ==
    (pc = "retHours" /\ hours >= 1)
        => ~(resultLocal.min > 720 /\ resultLocal.min < 780)

\* a call that starts strictly inside lunch, and one that starts at 11:30,
\* both returned
C1_Witness ==
    /\ pc = "retHours"
    /\ hours >= 1
    /\ startLocal.min \in {690, 750}
    /\ resultLocal.min >= 780

(***************************************************************************)
(* C2: adjustBackwardToWorking(x) is the latest working instant at or      *)
(* before x: it is not later than x, it is a working instant, no working   *)
(* instant w has result < w <= x, and adjusting it again changes nothing.  *)
(***************************************************************************)
C2_LatestWorkingAtOrBefore ==
    pc = "retAdjust" =>
        /\ Abs(resultLocal) <= Abs(startLocal)
        /\ IsWorkingInstant(resultLocal, holidaySet)
        /\ \A d \in resultLocal.day..startLocal.day : \A m \in TimesOfDay :
              (Abs(At(d, m)) > Abs(resultLocal) /\ Abs(At(d, m)) <= Abs(startLocal))
                  => ~IsWorkingInstant(At(d, m), holidaySet)
        /\ adjustBackwardToWorking(resultLocal, holidaySet) = resultLocal

\* a start on a holiday Monday is taken back over the weekend to Friday 17:00
C2_Witness ==
    /\ pc = "retAdjust"
    /\ startLocal.day % 7 = 0
    /\ startLocal.day \in holidaySet
    /\ resultLocal = At(startLocal.day - 3, 1020)

(***************************************************************************)
(* C3: for a working instant x and n >= 1, addBusinessDays(x, n) lies on   *)
(* the n-th working date strictly after x's date, at x's hour and minute;  *)
(* Friday + 1 is the following Monday when that Monday is no holiday.      *)
(***************************************************************************)
C3_NthWorkingDate ==
    (pc = "retDays" /\ days >= 1 /\ IsWorkingInstant(startLocal, holidaySet)) =>
        /\ resultLocal.min = startLocal.min
        /\ resultLocal.day > startLocal.day
        /\ IsWorkingDate(resultLocal.day, holidaySet)
        /\ Cardinality({d \in (startLocal.day + 1)..resultLocal.day :
                            IsWorkingDate(d, holidaySet)}) = days
        /\ (IsFriday(startLocal.day) /\ days = 1 /\ (startLocal.day + 3) \notin holidaySet)
              => resultLocal.day = startLocal.day + 3

\* Friday + 1 day with the Monday a holiday: the result is the Tuesday
C3_Witness ==
    /\ pc = "retDays"
    /\ days = 1
    /\ IsWorkingInstant(startLocal, holidaySet)
    /\ IsFriday(startLocal.day)
    /\ (startLocal.day + 3) \in holidaySet
    /\ resultLocal = At(startLocal.day + 4, startLocal.min)

(***************************************************************************)
(* C4 as stated: for every start, d and h the handler's result equals      *)
(* addWorkingHours(addBusinessDays(adjustBackwardToWorking(start), d), h), *)
(* the stages running in that order.                                       *)
(***************************************************************************)
C4_PipelineEqualsComposition ==
    /\ pc = "addDays" =>
          resultLocal = adjustBackwardToWorking(startLocal, holidaySet)
    /\ pc = "addHours" =>
          resultLocal = addBusinessDays(
              adjustBackwardToWorking(startLocal, holidaySet), days, holidaySet)
    /\ pc \in {"respond", "done"} =>
          resultLocal = addWorkingHours(
              addBusinessDays(adjustBackwardToWorking(startLocal, holidaySet),
                              days, holidaySet),
              hours, holidaySet)

(***************************************************************************)
(* C5: for a fixed start and holiday set the handler's result does not     *)
(* decrease when the day count or the hour count grows by one.             *)
(***************************************************************************)
C5_Monotone ==
    pc = "done" =>
        /\ Abs(compute(startUtc, days + 1, hours, holidaySet)) >= Abs(resultUtc)
        /\ Abs(compute(startUtc, days, hours + 1, holidaySet)) >= Abs(resultUtc)

\* a start off the whole hour whose result grows strictly with either count
C5_Witness ==
    /\ pc = "done"
    /\ days >= 1
    /\ hours >= 1
    /\ startLocal.min \in {690, 990}
    /\ Abs(compute(startUtc, days + 1, hours, holidaySet)) > Abs(resultUtc)
    /\ Abs(compute(startUtc, days, hours + 1, holidaySet)) > Abs(resultUtc)

C7_AfternoonExhaustedRollsOver ==
    (/\ pc = "retHours"
     /\ IsWorkingInstant(startLocal, holidaySet)
     /\ InsideSegmentOnHour(startLocal)
     /\ startLocal.min >= 780
     /\ hours = HoursToSegmentEnd(startLocal)) =>
        resultLocal = At(NextWorkingDate(startLocal.day, holidaySet), 480)

(***************************************************************************)
(* C8 as stated: Friday 08:00 + 5 business hours is 13:00 of that Friday.  *)
(***************************************************************************)
C8_FridayEightPlusFive ==
    (/\ pc = "retHours"
     /\ IsWorkingInstant(startLocal, holidaySet)
     /\ IsFriday(startLocal.day)
     /\ startLocal.min = 480
     /\ hours = 5) =>
        resultLocal = At(startLocal.day, 780)

(***************************************************************************)
(* C9 as stated: a request that starts at 08:00 business time on a holiday *)
(* weekday, with dayCount = 1 and no hours, returns 08:00 business time of *)
(* the next working day.                                                   *)
(***************************************************************************)
C9_HolidayStartPlusOneDay ==
    (/\ pc = "done"
     /\ startLocal.min = 480
     /\ startLocal.day % 7 < 5
     /\ startLocal.day \in holidaySet
     /\ days = 1
     /\ hours = 0) =>
        resultLocal = At(NextWorkingDate(startLocal.day, holidaySet), 480)

(***************************************************************************)
(* C10 as stated: addWorkingHours(x, 0) returns a working instant x        *)
(* unchanged, the landing points 12:00 and 17:00 included.                 *)
(***************************************************************************)
C10_ZeroHoursIdentity ==
    (/\ pc = "retHours"
     /\ hours = 0
     /\ IsWorkingInstant(startLocal, holidaySet)) =>
        resultLocal = startLocal

(***************************************************************************)
(* C11 as stated: addBusinessDays(x, 0) returns x unchanged for every      *)
(* instant x, on a working date or not (both copies of the function).      *)
(***************************************************************************)
C11_ZeroDaysIdentity ==
    (pc \in {"retDays", "retDaysUnguarded"} /\ days = 0) => resultLocal = startLocal

(***************************************************************************)
(* C12 as stated: whenever holiday retrieval fails (network error,         *)
(* timeout, or a body that is neither an array nor an object with an array *)
(* under holidays) the list handed to makeHolidaySet is the embedded       *)
(* fallback list and no error response is sent.                            *)
(***************************************************************************)
C12_FallbackOnAnyFailure ==
    (pc # "fetch" /\ remote.kind \in Rejections \cup {"otherShape"}) =>
        /\ holidaysList = FallbackHolidays
        /\ response.status \in {0, 200}

(***************************************************************************)
(* C13 as stated: when an exception is thrown after validation, the        *)
(* response has status 500 or 503, an error kind other than                *)
(* InvalidParameters, and a message that is not the exception's message.   *)
(***************************************************************************)
C13_GenericInternalError ==
    (pc = "done" /\ exception.thrown) =>
        /\ response.status \in {500, 503}
        /\ response.error # "InvalidParameters"
        /\ response.message # exception.message

(***************************************************************************)
(* C14: every stage output of the pipeline normalize -> addBusinessDays -> *)
(* addWorkingHours is a working instant: a date that is neither a weekend  *)
(* day nor a holiday, time of day in [08:00,12:00] or [13:00,17:00].       *)
(***************************************************************************)
C14_StageOutputsAreWorking ==
    pc \in {"addDays", "addHours", "respond", "done"} =>
        IsWorkingInstant(resultLocal, holidaySet)

\* a request that starts on a weekend, with a holiday on the way, d >= 1 and
\* h >= 1, answered
C14_Witness ==
    /\ pc = "done"
    /\ startLocal.day % 7 >= 5
    /\ days >= 1
    /\ hours >= 1
    /\ \E d \in holidaySet : d > startLocal.day /\ d < resultLocal.day
    /\ IsWorkingInstant(resultLocal, holidaySet)

(***************************************************************************)
(* Working time between two instants, for C16.                             *)
(***************************************************************************)
\* working minutes of one working day that lie before minute m of that day
WorkedBefore(m) ==
    LET morning == IF m <= 480 THEN 0 ELSE IF m >= 720 THEN 240 ELSE m - 480
        afternoon == IF m <= 780 THEN 0 ELSE IF m >= 1020 THEN 240 ELSE m - 780
    IN  morning + afternoon

\* minutes inside [08:00,12:00) or [13:00,17:00) of working dates in [a, b)
WorkingMinutesBetween(a, b, H) ==
    IF a.day = b.day
    THEN IF IsWorkingDate(a.day, H) THEN WorkedBefore(b.min) - WorkedBefore(a.min) ELSE 0
    ELSE (IF IsWorkingDate(a.day, H) THEN 480 - WorkedBefore(a.min) ELSE 0)
         + 480 * Cardinality({d \in (a.day + 1)..(b.day - 1) : IsWorkingDate(d, H)})
         + (IF IsWorkingDate(b.day, H) THEN WorkedBefore(b.min) ELSE 0)

(***************************************************************************)
(* C16 as stated: for every working instant x, starts off the whole hour   *)
(* included, and n >= 1, the working time between x and                    *)
(* addWorkingHours(x, n) is exactly 60 * n minutes.                        *)
(***************************************************************************)
C16_ExactWorkingTime ==
    (pc = "retHours" /\ hours >= 1 /\ IsWorkingInstant(startLocal, holidaySet)) =>
        WorkingMinutesBetween(startLocal, resultLocal, holidaySet) = 60 * hours

(***************************************************************************)
(* C15: every loop of the engine terminates.  A non-returning iteration of *)
(* the backward normalization strictly decreases the civil date; a scan    *)
(* moves one day on over a non-working date and stops at the first working *)
(* date; an iteration of the addWorkingHours loop decreases hoursLeft or   *)
(* strictly advances the instant; no call is stuck before it returns, and  *)
(* every call eventually returns, with the function's result.              *)
(***************************************************************************)
C15_Progress ==
    /\ (pc = "adjust" /\ pc' = "adjust") => resultLocal'.day < resultLocal.day
    /\ (pc = "scan" /\ pc' = "scan") =>
           /\ ~IsWorkingDate(resultLocal.day, holidaySet)
           /\ resultLocal' = PlusDays(resultLocal, 1)
    /\ (pc = "scan" /\ pc' # "scan") =>
           /\ IsWorkingDate(resultLocal.day, holidaySet)
           /\ resultLocal' = resultLocal
    /\ (pc = "hours" /\ loop.hoursLeft > 0) =>
           \/ loop'.hoursLeft < loop.hoursLeft
           \/ Abs(resultLocal') > Abs(resultLocal)

C15_Returned ==
    /\ pc = "returned"
    /\ loop.fn = "adjustBackwardToWorking" =>
           resultLocal = adjustBackwardToWorking(startLocal, holidaySet)
    /\ loop.fn = "addBusinessDays" =>
           resultLocal = addBusinessDays(startLocal, days, holidaySet)
    /\ loop.fn = "addWorkingHours" =>
           resultLocal = addWorkingHours(startLocal, hours, holidaySet)

C15_LoopsTerminate ==
    /\ [][C15_Progress]_vars
    /\ [](pc # "returned" => ENABLED NextLoops)
    /\ <>C15_Returned

\* addWorkingHours returned after its loop left a segment, went over a
\* weekend and a holiday (scan) and ended on the following Tuesday
C15_Witness ==
    /\ pc = "returned"
    /\ loop.fn = "addWorkingHours"
    /\ IsFriday(startLocal.day)
    /\ (startLocal.day + 3) \in holidaySet
    /\ hours >= 5
    /\ loop.hoursLeft = 0
    /\ resultLocal.day = startLocal.day + 4

====
